---- MODULE Spec2Model ----
(***************************************************************************)
(* Query selection for constrained clustering                              *)
(* (robustclust/active_learning.py): get_constraints, FFQS, MMFFQS and     *)
(* active_class_discovery, as one state machine.  Arrays indexed by point  *)
(* are functions on 0..N-1; matrices are sequences of rows, row k of the   *)
(* code being element k+1 here.                                            *)
(***************************************************************************)
EXTENDS Integers, Sequences, FiniteSets

VARIABLES
  N, data, labels, method, n_constraints, err_rate, min_samples,
  pc, pdist_vec, rng_used,
  nbr_label, quer_cnt, constraint_mat, found_all, new_pt, constraint, nbr_cnt,
  assign_log,
  paff_vec, clus_label, skeleton_ind, query_cnt, clus, q, ind_vec, k, mm_writes,
  mm_iters,
  merge_history, merge_size, select_idx,
  query_mat, error_ind, gc_constraint_mat, big_constraint_mat

inputs == <<N, data, labels, method, n_constraints, err_rate, min_samples>>
ffqs_vars == <<nbr_label, quer_cnt, constraint_mat, found_all, new_pt, constraint,
               nbr_cnt, assign_log>>
mm_vars == <<paff_vec, clus_label, skeleton_ind, query_cnt, clus, q, ind_vec, k,
             mm_writes, mm_iters>>
acd_vars == <<merge_history, merge_size, select_idx>>
out_vars == <<query_mat, error_ind, gc_constraint_mat, big_constraint_mat>>
vars == <<inputs, pc, pdist_vec, rng_used, ffqs_vars, mm_vars, acd_vars, out_vars>>

(* ------------------------------ bounds ------------------------------ *)
MaxN == 3
MaxBudget == 3
MaxCoord == 2
MaxAcdN == 4
MaxAcdBudget == 2
MaxWideN == 4

(* ------------------------------ helpers ----------------------------- *)
None == -1
NoArr == <<>>

Max(S) == CHOOSE x \in S : \A y \in S : y <= x
Min(S) == CHOOSE x \in S : \A y \in S : x <= y
Abs(x) == IF x < 0 THEN -x ELSE x
Ind(n) == 0 .. n - 1
Methods == {"rand", "ffqs", "mmffqs", "acd"}
ErrRates == {0, 50, 100}

(* a class count one above the number of distinct labels *)
NumClassOneMore(lab) == Cardinality({lab[i] : i \in DOMAIN lab}) + 1

(* np.unique(labels).size *)
NumClass(lab) == Cardinality({lab[i] : i \in DOMAIN lab})

(* scipy pdist on one-dimensional data: the condensed vector, one entry   *)
(* per pair i < j.                                                        *)
pdist(d) ==
  [p \in {<<i, j>> \in (DOMAIN d) \X (DOMAIN d) : i < j} |->
      Abs(d[p[1]] - d[p[2]])]

(* utils.pdist_idx: the entry of a condensed vector for the pair (i, j);  *)
(* symmetric, zero on the diagonal.                                       *)
pdist_idx(vec, i, j) ==
  IF i = j THEN 0 ELSE IF i < j THEN vec[<<i, j>>] ELSE vec[<<j, i>>]

(* utils.pdist_block: the block of a condensed vector, rows A, columns B  *)
pdist_block(vec, A, B) == [p \in A \X B |-> pdist_idx(vec, p[1], p[2])]

(* utils.affinity: a monotone-decreasing, bounded transform of distance   *)
affinity(vec) == [p \in DOMAIN vec |-> MaxCoord - vec[p]]

(* utils.pdist_idx on the affinity vector: a point is at distance zero    *)
(* from itself, which the transform maps to the largest affinity          *)
paff_idx(vec, i, j) ==
  IF i = j THEN MaxCoord ELSE IF i < j THEN vec[<<i, j>>] ELSE vec[<<j, i>>]

(* utils.all_pairwise: 1 for two points sharing a nonzero label, else 0   *)
all_pairwise(lab) ==
  [p \in (DOMAIN lab) \X (DOMAIN lab) |->
      IF lab[p[1]] > 0 /\ lab[p[1]] = lab[p[2]] THEN 1 ELSE 0]

(* np.zeros((n, 3)) *)
Zeros3(n) == [r \in 1 .. n |-> <<0, 0, 0>>]

(* the oracle answering "same" for two points of different classes *)
SameLabelNegated(a, b) == IF labels[a] # labels[b] THEN 1 ELSE 0

(* the oracle: labels[a] == labels[b], as 0/1 *)
SameLabel(a, b) == IF labels[a] = labels[b] THEN 1 ELSE 0

(* label vectors up to renaming of the classes: the code reads labels     *)
(* only through equality and through the number of distinct values        *)
Canonical(lab) ==
  /\ lab[0] = 1
  /\ \A i \in DOMAIN lab : i > 0 => lab[i] <= Max({lab[j] : j \in 0 .. i - 1}) + 1

(* the min_samples worth telling apart: the smaller side of a merge has   *)
(* at most n \div 2 points                                                *)
MinSamples(n) == {None} \cup (1 .. (n \div 2) + 1)

(* ------------------------------- Init ------------------------------- *)
InitLocals ==
  /\ pc = "start"
  /\ pdist_vec = NoArr
  /\ rng_used = FALSE
  /\ nbr_label = NoArr /\ quer_cnt = 0 /\ constraint_mat = NoArr
  /\ found_all = FALSE /\ new_pt = None /\ constraint = FALSE /\ nbr_cnt = 0
  /\ assign_log = <<>>
  /\ paff_vec = NoArr /\ clus_label = NoArr /\ skeleton_ind = {}
  /\ query_cnt = 0 /\ clus = {} /\ q = None /\ ind_vec = <<>> /\ k = 0
  /\ mm_writes = 0 /\ mm_iters = 0
  /\ merge_history = <<>> /\ merge_size = <<>> /\ select_idx = <<>>
  /\ query_mat = NoArr /\ error_ind = NoArr
  /\ gc_constraint_mat = NoArr /\ big_constraint_mat = NoArr

InitInputs(maxn, meths) ==
  /\ N \in 2 .. maxn
  /\ data \in [Ind(N) -> 0 .. MaxCoord]
  /\ \E i \in Ind(N) : data[i] = 0
  /\ labels \in [Ind(N) -> 1 .. N]
  /\ Canonical(labels)
  /\ method \in meths
  /\ n_constraints \in 0 .. MaxBudget
  /\ err_rate \in ErrRates
  /\ min_samples \in IF method = "acd" THEN MinSamples(N) ELSE {None}

Init == InitInputs(MaxN, Methods \cup {"kmeans"}) /\ InitLocals

(* datasets of up to MaxWideN points lying at the two ends of the         *)
(* coordinate range, noise-free                                           *)
InitWide(meth) ==
  /\ InitInputs(MaxWideN, {meth})
  /\ \A i \in Ind(N) : data[i] \in {0, MaxCoord}
  /\ err_rate = 0

(* --------------------------- get_constraints ------------------------ *)
(* np.random.randint(0, N, (n, 2)): every n-by-2 matrix over 0..N-1       *)
RandPairs(n) == [1 .. n -> {<<a, b>> : a \in Ind(N), b \in Ind(N)}]

(* lines 14-38: the distances, then the dispatch on the method name       *)
GC_Dispatch ==
  /\ pc = "start"
  /\ pdist_vec' = pdist(data)
  /\ IF method = "acd"
       THEN pc' = "acd_fit" /\ UNCHANGED <<rng_used, query_mat>>
     ELSE IF method = "mmffqs"
       THEN pc' = "ffqs_init" /\ UNCHANGED <<rng_used, query_mat>>
     ELSE IF method = "ffqs"
       THEN pc' = "ffqs_init" /\ UNCHANGED <<rng_used, query_mat>>
     ELSE IF method = "rand"
       THEN /\ query_mat' \in RandPairs(n_constraints)
            /\ rng_used' = TRUE
            /\ pc' = "assemble"
     ELSE pc' = "raised" /\ UNCHANGED <<rng_used, query_mat>>
  /\ UNCHANGED <<inputs, ffqs_vars, mm_vars, acd_vars, error_ind, gc_constraint_mat,
                 big_constraint_mat>>

(* --------------------------------- FFQS ----------------------------- *)
Assigned(lab) == {i \in DOMAIN lab : lab[i] > 0}
Unassigned(lab) == {i \in DOMAIN lab : lab[i] = 0}
MaxLabel(lab) == Max({lab[i] : i \in DOMAIN lab})
(* np.setdiff1d(np.unique(nbr_label), [0]) *)
UniqueNbr(lab) == {lab[i] : i \in DOMAIN lab} \ {0}
(* this_hood[0]: the lowest index carrying the label *)
HoodRep(lab, h) == Min({i \in DOMAIN lab : lab[i] = h})

(* lines 70-72: min over the assigned rows, then the first argmax         *)
MinDist(vec, nbr_ind, c) == Min({pdist_block(vec, nbr_ind, {c})[<<a, c>>] : a \in nbr_ind})
(* the candidate nearest to the assigned points *)
FarPointNearest(vec, nbr_ind, cand_ind) ==
  Min({c \in cand_ind :
         \A d \in cand_ind : MinDist(vec, nbr_ind, c) <= MinDist(vec, nbr_ind, d)})

FarPoint(vec, nbr_ind, cand_ind) ==
  Min({c \in cand_ind :
         \A d \in cand_ind : MinDist(vec, nbr_ind, d) <= MinDist(vec, nbr_ind, c)})

(* the guard of the outer loop letting one more iteration in *)
FFQS_ContinueOneMore == quer_cnt <= n_constraints /\ ~found_all

(* line 64: the guard of the outer loop *)
FFQS_Continue == quer_cnt < n_constraints /\ ~found_all

(* lines 55-63: the seed point, the empty constraint array *)
FFQS_Init ==
  /\ pc = "ffqs_init"
  /\ \E s \in Ind(N) :
       /\ nbr_label' = [i \in Ind(N) |-> IF i = s THEN 1 ELSE 0]
       /\ assign_log' = <<[pt |-> s, hood |-> 1, rep |-> None, at |-> None]>>
  /\ rng_used' = TRUE
  /\ quer_cnt' = 0
  /\ constraint_mat' = Zeros3(n_constraints)
  /\ found_all' = FALSE
  /\ pc' = "ffqs_loop"
  /\ UNCHANGED <<inputs, pdist_vec, new_pt, constraint, nbr_cnt, mm_vars, acd_vars,
                 out_vars>>

(* lines 65-75: the farthest unassigned point; argmax of an empty array   *)
(* raises                                                                 *)
FFQS_Select ==
  /\ pc = "ffqs_loop"
  /\ FFQS_Continue
  /\ IF Unassigned(nbr_label) = {}
       THEN /\ pc' = "raised"
            /\ UNCHANGED <<new_pt, constraint, nbr_cnt>>
       ELSE /\ new_pt' = FarPoint(pdist_vec, Assigned(nbr_label), Unassigned(nbr_label))
            /\ constraint' = FALSE
            /\ nbr_cnt' = 1
            /\ pc' = "ffqs_scan"
  /\ UNCHANGED <<inputs, pdist_vec, rng_used, nbr_label, quer_cnt, constraint_mat,
                 found_all, assign_log, mm_vars, acd_vars, out_vars>>

(* the guard of the scan leaving the last neighborhood out *)
FFQS_ScanOnShort == ~constraint /\ nbr_cnt < MaxLabel(nbr_label)

(* the guard of the scan going on after a "same" answer *)
FFQS_ScanOnAll == nbr_cnt <= MaxLabel(nbr_label)

(* line 76: the guard of the scan over the neighborhoods *)
FFQS_ScanOn == ~constraint /\ nbr_cnt <= MaxLabel(nbr_label)

(* the guard of the write leaving the last row out *)
FFQS_InBudgetShort == quer_cnt + 1 < n_constraints

(* line 79: the guard of the write of a row *)
FFQS_InBudget == quer_cnt < n_constraints

(* lines 77-82: one comparison with the representative of nbr_cnt *)
FFQS_Scan ==
  /\ pc = "ffqs_scan"
  /\ FFQS_ScanOn
  /\ LET rep == HoodRep(nbr_label, nbr_cnt)
         c == SameLabel(new_pt, rep)
     IN /\ constraint' = (c = 1)
        /\ constraint_mat' =
             IF FFQS_InBudget
               THEN [constraint_mat EXCEPT ![quer_cnt + 1] = <<new_pt, rep, c>>]
               ELSE constraint_mat
  /\ quer_cnt' = quer_cnt + 1
  /\ nbr_cnt' = nbr_cnt + 1
  /\ UNCHANGED <<inputs, pc, pdist_vec, rng_used, nbr_label, found_all, new_pt,
                 assign_log, mm_vars, acd_vars, out_vars>>

(* lines 84-91: the label of the new point, the early stop *)
FFQS_Assign ==
  /\ pc = "ffqs_scan"
  /\ ~FFQS_ScanOn
  /\ LET hood == IF constraint THEN nbr_cnt - 1 ELSE MaxLabel(nbr_label) + 1
         lab == [nbr_label EXCEPT ![new_pt] = hood]
     IN /\ nbr_label' = lab
        /\ assign_log' = Append(assign_log,
             [pt |-> new_pt, hood |-> hood,
              rep |-> IF constraint THEN HoodRep(nbr_label, hood) ELSE None,
              at |-> quer_cnt - 1])
        /\ found_all' = (found_all \/ Cardinality(UniqueNbr(lab)) = NumClass(labels))
  /\ pc' = "ffqs_loop"
  /\ UNCHANGED <<inputs, pdist_vec, rng_used, quer_cnt, constraint_mat, new_pt,
                 constraint, nbr_cnt, mm_vars, acd_vars, out_vars>>

(* line 93 *)
FFQS_Return ==
  /\ pc = "ffqs_loop"
  /\ ~FFQS_Continue
  /\ pc' = "ffqs_done"
  /\ UNCHANGED <<inputs, pdist_vec, rng_used, ffqs_vars, mm_vars, acd_vars, out_vars>>

(* lines 30-31: the array FFQS returns is the query array as it is, all   *)
(* three columns                                                          *)
GC_FFQS ==
  /\ pc = "ffqs_done"
  /\ method = "ffqs"
  /\ query_mat' = constraint_mat
  /\ big_constraint_mat' = all_pairwise(nbr_label)
  /\ pc' = "assemble"
  /\ UNCHANGED <<inputs, pdist_vec, rng_used, ffqs_vars, mm_vars, acd_vars,
                 error_ind, gc_constraint_mat>>

(* lines 40-49: the true link of each row, the rows drawn for error       *)
(* inverted, the link appended as one more column                         *)
ErrorInds(n) ==
  IF err_rate = 0 THEN {[r \in 1 .. n |-> FALSE]}
  ELSE IF err_rate = 100 THEN {[r \in 1 .. n |-> TRUE]}
  ELSE [1 .. n -> BOOLEAN]
Flip(link) == 2 - 2 ^ link
TrueLink(row) == SameLabel(row[1], row[2])
NoisyLink(row, err) == IF err THEN Flip(TrueLink(row)) ELSE TrueLink(row)
GC_Assemble ==
  /\ pc = "assemble"
  /\ \E e \in ErrorInds(n_constraints) :
       /\ error_ind' = e
       /\ gc_constraint_mat' =
            [r \in 1 .. Len(query_mat) |->
               Append(query_mat[r], NoisyLink(query_mat[r], e[r]))]
  /\ rng_used' = TRUE
  /\ pc' = "returned"
  /\ UNCHANGED <<inputs, pdist_vec, ffqs_vars, mm_vars, acd_vars, query_mat,
                 big_constraint_mat>>

(* FFQS alone, up to its return: it does not read the noise rate *)
NextFFQS ==
  \/ GC_Dispatch \/ FFQS_Init \/ FFQS_Select \/ FFQS_Scan \/ FFQS_Assign
  \/ FFQS_Return
InitFFQS == InitInputs(MaxN, {"ffqs"}) /\ err_rate = 0 /\ InitLocals
SpecFFQS == InitFFQS /\ [][NextFFQS]_vars

(* FFQS alone on datasets of up to MaxWideN points *)
InitFFQSWide == InitWide("ffqs") /\ InitLocals
SpecFFQSWide == InitFFQSWide /\ [][NextFFQS]_vars

(* get_constraints with method 'ffqs', through to its return *)
NextGC_FFQS ==
  \/ GC_Dispatch \/ FFQS_Init \/ FFQS_Select \/ FFQS_Scan \/ FFQS_Assign
  \/ FFQS_Return \/ GC_FFQS \/ GC_Assemble
InitGC_FFQS == InitInputs(MaxN, {"ffqs"}) /\ InitLocals
SpecGC_FFQS == InitGC_FFQS /\ [][NextGC_FFQS]_vars

(* -------------------------------- MMFFQS ---------------------------- *)
(* line 107: the rows whose first column is not 0 *)
ExploreRows(mat) == {r \in DOMAIN mat : mat[r][1] # 0}

(* line 116: the largest affinity of candidate c to the skeleton *)
CandSim(vec, skel, c) == Max({paff_idx(vec, a, c) : a \in skel})
(* lines 117-118: the first argmin over the candidates *)
MinimaxPoint(vec, skel, cand) ==
  Min({c \in cand : \A d \in cand : CandSim(vec, skel, c) <= CandSim(vec, skel, d)})

(* lines 127-130: the best affinity of qq to neighborhood c, and the      *)
(* first member attaining it                                              *)
Members(lab, c) == {i \in DOMAIN lab : lab[i] = c}
SimTo(vec, lab, qq, c) == Max({paff_idx(vec, qq, i) : i \in Members(lab, c)})
RepOf(vec, lab, qq, c) ==
  Min({i \in Members(lab, c) : paff_idx(vec, qq, i) = SimTo(vec, lab, qq, c)})

(* the neighborhoods in ascending order of their best affinity *)
RankedOrdersAsc(vec, lab, cl, qq) ==
  {f \in [1 .. Cardinality(cl) -> cl] :
     /\ \A i, j \in DOMAIN f : i # j => f[i] # f[j]
     /\ \A i, j \in DOMAIN f : i < j => SimTo(vec, lab, qq, f[i]) <= SimTo(vec, lab, qq, f[j])}

(* line 132: np.argsort(-sim_vec); the order among equal values is the    *)
(* sort routine's                                                         *)
RankedOrders(vec, lab, cl, qq) ==
  {f \in [1 .. Cardinality(cl) -> cl] :
     /\ \A i, j \in DOMAIN f : i # j => f[i] # f[j]
     /\ \A i, j \in DOMAIN f : i < j => SimTo(vec, lab, qq, f[i]) >= SimTo(vec, lab, qq, f[j])}

(* lines 102-111 *)
MM_Start ==
  /\ pc = "ffqs_done"
  /\ method = "mmffqs"
  /\ paff_vec' = affinity(pdist_vec)
  /\ clus_label' = nbr_label
  /\ skeleton_ind' = UNION {{constraint_mat[r][1], constraint_mat[r][2]} :
                              r \in ExploreRows(constraint_mat)}
  /\ query_cnt' = Cardinality(ExploreRows(constraint_mat))
  /\ clus' = UniqueNbr(nbr_label)
  /\ pc' = "mm_loop"
  /\ UNCHANGED <<inputs, pdist_vec, rng_used, ffqs_vars, q, ind_vec, k, mm_writes, mm_iters,
                 acd_vars, out_vars>>

(* lines 114-133: the next query point and the ranked representatives;    *)
(* np.max over an empty skeleton raises                                   *)
MM_Select ==
  /\ pc = "mm_loop"
  /\ query_cnt < n_constraints
  /\ LET candidate_ind == Ind(N) \ skeleton_ind
     IN IF candidate_ind # {} /\ skeleton_ind = {}
          THEN /\ pc' = "raised"
               /\ UNCHANGED <<rng_used, q, ind_vec, k>>
          ELSE /\ \E qq \in IF candidate_ind # {}
                              THEN {MinimaxPoint(paff_vec, skeleton_ind, candidate_ind)}
                              ELSE Ind(N) :
                    /\ q' = qq
                    /\ \E f \in RankedOrders(paff_vec, clus_label, clus, qq) :
                         ind_vec' = [i \in DOMAIN f |->
                                       RepOf(paff_vec, clus_label, qq, f[i])]
               /\ rng_used' = (rng_used \/ candidate_ind = {})
               /\ k' = 0
               /\ pc' = "mm_scan"
  /\ UNCHANGED <<inputs, pdist_vec, ffqs_vars, paff_vec, clus_label, skeleton_ind,
                 query_cnt, clus, mm_writes, acd_vars, out_vars>>
  /\ mm_iters' = mm_iters + 1

(* line 141: the test meant to open a new neighborhood *)
MM_NoMatch(kk, num_clus) == kk = num_clus

(* lines 135-144: one query of the ranked scan *)
MM_Query ==
  /\ pc = "mm_scan"
  /\ k < Len(ind_vec)
  /\ IF query_cnt >= Len(constraint_mat)
       THEN /\ pc' = "raised"
            /\ UNCHANGED <<constraint_mat, query_cnt, clus_label, k, mm_writes>>
       ELSE LET rep == ind_vec[k + 1]
                link == SameLabel(q, rep)
            IN /\ constraint_mat' =
                    [constraint_mat EXCEPT ![query_cnt + 1] = <<q, rep, link>>]
               /\ query_cnt' = query_cnt + 1
               /\ mm_writes' = mm_writes + 1
               /\ IF link = 1
                    THEN /\ clus_label' = [clus_label EXCEPT ![q] = clus_label[rep]]
                         /\ pc' = "mm_append"
                         /\ k' = k
                    ELSE /\ clus_label' =
                              IF MM_NoMatch(k, Len(ind_vec))
                                THEN [clus_label EXCEPT ![q] = Max(clus) + 1]
                                ELSE clus_label
                         /\ IF query_cnt + 1 = n_constraints
                              THEN pc' = "mm_append" /\ k' = k
                              ELSE pc' = pc /\ k' = k + 1
  /\ UNCHANGED <<inputs, pdist_vec, rng_used, nbr_label, quer_cnt, found_all, new_pt,
                 constraint, nbr_cnt, assign_log, paff_vec, skeleton_ind, clus, q,
                 ind_vec, mm_iters, acd_vars, out_vars>>

(* line 145 *)
MM_Append ==
  /\ pc = "mm_append" \/ (pc = "mm_scan" /\ k >= Len(ind_vec))
  /\ skeleton_ind' = skeleton_ind \cup {q}
  /\ pc' = "mm_loop"
  /\ UNCHANGED <<inputs, pdist_vec, rng_used, ffqs_vars, paff_vec, clus_label,
                 query_cnt, clus, q, ind_vec, k, mm_writes, mm_iters, acd_vars,
                 out_vars>>

(* line 147, then lines 26-27: the first two columns are the query array  *)
GC_MMFFQS ==
  /\ pc = "mm_loop"
  /\ ~(query_cnt < n_constraints)
  /\ query_mat' = [r \in DOMAIN constraint_mat |->
                     <<constraint_mat[r][1], constraint_mat[r][2]>>]
  /\ big_constraint_mat' = all_pairwise(clus_label)
  /\ pc' = "assemble"
  /\ UNCHANGED <<inputs, pdist_vec, rng_used, ffqs_vars, mm_vars, acd_vars,
                 error_ind, gc_constraint_mat>>

NextMMFFQS ==
  \/ GC_Dispatch \/ FFQS_Init \/ FFQS_Select \/ FFQS_Scan \/ FFQS_Assign
  \/ FFQS_Return \/ MM_Start \/ MM_Select \/ MM_Query \/ MM_Append \/ GC_MMFFQS
  \/ GC_Assemble
InitMMFFQS == InitInputs(MaxN, {"mmffqs"}) /\ InitLocals
SpecMMFFQS == InitMMFFQS /\ [][NextMMFFQS]_vars

(* MMFFQS alone, up to its return: it does not read the noise rate *)
NextMM ==
  \/ GC_Dispatch \/ FFQS_Init \/ FFQS_Select \/ FFQS_Scan \/ FFQS_Assign
  \/ FFQS_Return \/ MM_Start \/ MM_Select \/ MM_Query \/ MM_Append \/ GC_MMFFQS
InitMM == InitInputs(MaxN, {"mmffqs"}) /\ err_rate = 0 /\ InitLocals
SpecMM == InitMM /\ [][NextMM]_vars

(* MMFFQS alone on points lying at the two ends of the coordinate range;  *)
(* every step that can be taken is taken in the end: the interpreter runs *)
(* the call until it returns or raises                                    *)
InitMMFair ==
  /\ InitMM
  /\ \A i \in Ind(N) : data[i] \in {0, MaxCoord}
FairMM == InitMMFair /\ [][NextMM]_vars /\ WF_vars(NextMM)

(* MMFFQS alone on datasets of up to MaxWideN points *)
InitMMWide == InitWide("mmffqs") /\ InitLocals
SpecMMWide == InitMMWide /\ [][NextMM]_vars

(* ----------------------- active_class_discovery --------------------- *)
(* agg.children_ of AgglomerativeClustering.fit: N-1 merges, merge i      *)
(* (from 0) joining two nodes not merged before and making node N+i.      *)
(* Which two nodes is the library's choice: every merge tree is allowed.  *)
RECURSIVE MergeTrees(_, _, _)
MergeTrees(avail, next, steps) ==
  IF steps = 0 THEN {<<>>}
  ELSE UNION {{<<pr>> \o t : t \in MergeTrees((avail \ {pr[1], pr[2]}) \cup {next},
                                                next + 1, steps - 1)} :
                pr \in {x \in avail \X avail : x[1] < x[2]}}

(* The function treats all points alike, so the trees are taken up to a   *)
(* renaming of the points: the first merge joins points 0 and 1.          *)
FitTrees(n) ==
  {<<<<0, 1>>>> \o t : t \in MergeTrees((Ind(n) \ {0, 1}) \cup {n}, n + 1, n - 2)}

(* lines 167-172: the points under a node of the tree *)
RECURSIVE clus_mem(_, _, _)
clus_mem(children, n, node) ==
  IF node < n THEN {node}
  ELSE clus_mem(children, n, children[node - n + 1][1])
         \cup clus_mem(children, n, children[node - n + 1][2])

(* lines 173-174 *)
MergeHistory(children, n) ==
  [i \in DOMAIN children |->
     <<clus_mem(children, n, children[i][1]), clus_mem(children, n, children[i][2])>>]
MergeSize(hist) ==
  [i \in DOMAIN hist |-> Min({Cardinality(hist[i][1]), Cardinality(hist[i][2])})]

(* np.argsort(merge_size): the sign forgotten, smallest merges first      *)
ArgsortAsc(size) ==
  {f \in [DOMAIN size -> DOMAIN size] :
     /\ \A i, j \in DOMAIN f : i # j => f[i] # f[j]
     /\ \A i, j \in DOMAIN f : i < j => size[f[i]] <= size[f[j]]}

(* line 176: np.argsort(-merge_size), merges numbered from 1 here; the    *)
(* order among equal sizes is the sort routine's                          *)
ArgsortDesc(size) ==
  {f \in [DOMAIN size -> DOMAIN size] :
     /\ \A i, j \in DOMAIN f : i # j => f[i] # f[j]
     /\ \A i, j \in DOMAIN f : i < j => size[f[i]] >= size[f[j]]}

(* line 178: keep, in order, the merges of size >= min_samples *)
RECURSIVE FilterMin(_, _, _)
FilterMin(sel, size, ms) ==
  IF sel = <<>> THEN <<>>
  ELSE IF size[Head(sel)] >= ms
    THEN <<Head(sel)>> \o FilterMin(Tail(sel), size, ms)
    ELSE FilterMin(Tail(sel), size, ms)

(* line 181: select_idx[:n] *)
Truncate(sel, n) == IF Len(sel) <= n THEN sel ELSE SubSeq(sel, 1, n)

(* random pairs drawn from one index too many *)
PadPairsWide(n) == {<<a, b>> : a \in Ind(n + 1), b \in Ind(n + 1)}

(* line 187: the rows left over are random pairs over the whole dataset *)
PadPairs(n) == {<<a, b>> : a \in Ind(n), b \in Ind(n)}

(* lines 162-174 *)
ACD_Fit ==
  /\ pc = "acd_fit"
  /\ \E children \in FitTrees(N) :
       /\ merge_history' = MergeHistory(children, N)
       /\ merge_size' = MergeSize(MergeHistory(children, N))
  /\ pc' = "acd_select"
  /\ UNCHANGED <<inputs, pdist_vec, rng_used, ffqs_vars, mm_vars, select_idx, out_vars>>

(* lines 176-181 *)
ACD_Select ==
  /\ pc = "acd_select"
  /\ \E order \in ArgsortDesc(merge_size) :
       select_idx' =
         Truncate(IF min_samples # None
                    THEN FilterMin(order, merge_size, min_samples)
                    ELSE order,
                  n_constraints)
  /\ pc' = "acd_fill"
  /\ UNCHANGED <<inputs, pdist_vec, rng_used, ffqs_vars, mm_vars, merge_history,
                 merge_size, out_vars>>

(* lines 180-189, then lines 22-23 *)
ACD_Fill ==
  /\ pc = "acd_fill"
  /\ query_mat' \in
       {m \in [1 .. n_constraints -> PadPairs(N)] :
          \A i \in 1 .. Len(select_idx) :
             /\ m[i][1] \in merge_history[select_idx[i]][1]
             /\ m[i][2] \in merge_history[select_idx[i]][2]}
  /\ big_constraint_mat' = NoArr
  /\ rng_used' = TRUE
  /\ pc' = "assemble"
  /\ UNCHANGED <<inputs, pdist_vec, ffqs_vars, mm_vars, acd_vars, error_ind,
                 gc_constraint_mat>>

NextACD == GC_Dispatch \/ ACD_Fit \/ ACD_Select \/ ACD_Fill
(* ACD reads neither the labels nor the noise rate, and the merge tree    *)
(* is the library's: one dataset and one label vector per N suffice       *)
InitACD ==
  /\ N \in 2 .. MaxAcdN
  /\ data = [i \in Ind(N) |-> 0]
  /\ labels = [i \in Ind(N) |-> 1]
  /\ method = "acd"
  /\ n_constraints \in 0 .. MaxAcdBudget
  /\ err_rate = 0
  /\ min_samples \in MinSamples(N)
  /\ InitLocals
SpecACD == InitACD /\ [][NextACD]_vars

Next ==
  \/ GC_Dispatch \/ FFQS_Init \/ FFQS_Select \/ FFQS_Scan \/ FFQS_Assign
  \/ FFQS_Return \/ GC_FFQS \/ MM_Start \/ MM_Select \/ MM_Query \/ MM_Append
  \/ GC_MMFFQS \/ ACD_Fit \/ ACD_Select \/ ACD_Fill \/ GC_Assemble
Spec == Init /\ [][Next]_vars

(* ------------------------------ claims ------------------------------ *)
Returned == pc = "returned"
Rows == DOMAIN gc_constraint_mat

(* C1: the matrix get_constraints returns has n_constraints rows, each of *)
(* three columns (i, j, link) with link 0 or 1.                           *)
C1_ThreeColumns ==
  Returned =>
    /\ Len(gc_constraint_mat) = n_constraints
    /\ \A r \in Rows :
         Len(gc_constraint_mat[r]) = 3 /\ gc_constraint_mat[r][3] \in {0, 1}

(* C2: with err_rate = 0 the link of every returned row (i, j, link) is 1 *)
(* if labels[i] = labels[j] and 0 otherwise.                              *)
C2_TrueLinks ==
  (Returned /\ err_rate = 0) =>
    \A r \in Rows :
      gc_constraint_mat[r][3] = SameLabel(gc_constraint_mat[r][1], gc_constraint_mat[r][2])

(* C3: the link of a returned row is the complement of the true link if   *)
(* the row was drawn for error and the true link otherwise; with          *)
(* err_rate = 1 every returned link is the complement.                    *)
C3_FlipsSampledRows ==
  Returned =>
    /\ \A r \in Rows :
         gc_constraint_mat[r][3] =
           IF error_ind[r]
             THEN 1 - SameLabel(gc_constraint_mat[r][1], gc_constraint_mat[r][2])
             ELSE SameLabel(gc_constraint_mat[r][1], gc_constraint_mat[r][2])
    /\ err_rate = 100 =>
         \A r \in Rows :
           gc_constraint_mat[r][3] =
             1 - SameLabel(gc_constraint_mat[r][1], gc_constraint_mat[r][2])

(* C4: FFQS makes at most n_constraints oracle comparisons (quer_cnt      *)
(* counts them), and the comparison that settles a point's assignment is  *)
(* one made within the budget.                                            *)
C4_ComparisonsWithinBudget ==
  /\ quer_cnt <= n_constraints
  /\ \A i \in DOMAIN assign_log :
       assign_log[i].at # None => assign_log[i].at < n_constraints

(* the rows FFQS has written: line 80 runs while quer_cnt < n_constraints *)
FFQSRecorded == IF quer_cnt < n_constraints THEN quer_cnt ELSE n_constraints

(* C5: the queries recorded by the FFQS phase and by the minimax phase    *)
(* together never exceed n_constraints, and every row written has an      *)
(* index below n_constraints.                                             *)
C5_RecordedWithinBudget ==
  /\ FFQSRecorded + mm_writes <= n_constraints
  /\ (pc = "mm_scan" /\ k < Len(ind_vec)) => query_cnt < n_constraints
  /\ pc = "ffqs_scan" => Len(constraint_mat) = n_constraints

(* the points in the order FFQS labelled them *)
Seed == assign_log[1].pt
Earlier(a, b) ==
  \E i, j \in DOMAIN assign_log :
    i < j /\ assign_log[i].pt = a /\ assign_log[j].pt = b
SameRow(p, e) == \E r \in DOMAIN constraint_mat : constraint_mat[r] = <<p, e, 1>>

(* C6 as stated: every labelled point but the seed has a recorded "same"  *)
(* row with an earlier member of its neighborhood.                        *)
C6_SameRowForEveryPoint ==
  \A p \in Assigned(nbr_label) :
    p # Seed =>
      \E e \in Assigned(nbr_label) :
        nbr_label[e] = nbr_label[p] /\ Earlier(e, p) /\ SameRow(p, e)

(* C6 as amended: every labelled point is the seed, or opened its         *)
(* neighborhood after "different" answers only, or joined a neighborhood  *)
(* on a "same" answer from an earlier member of it that truly shares its  *)
(* class; that answer is a recorded row whenever the comparison was made  *)
(* within the budget.                                                     *)
C6_JustifiedLabels ==
  /\ \A p \in Assigned(nbr_label) :
       \E i \in DOMAIN assign_log :
         assign_log[i].pt = p /\ assign_log[i].hood = nbr_label[p]
  /\ \A i \in DOMAIN assign_log :
       LET e == assign_log[i] IN
         i > 1 =>
           IF e.rep = None
             THEN /\ \A j \in 1 .. i - 1 : assign_log[j].hood # e.hood
                  /\ \A r \in DOMAIN constraint_mat :
                       (constraint_mat[r][1] = e.pt /\ constraint_mat[r][2] # e.pt)
                          => constraint_mat[r][3] = 0
             ELSE /\ nbr_label[e.rep] = e.hood
                  /\ Earlier(e.rep, e.pt)
                  /\ labels[e.rep] = labels[e.pt]
                  /\ e.at < n_constraints => constraint_mat[e.at + 1] = <<e.pt, e.rep, 1>>

(* a point has joined a neighborhood on a recorded answer, another has    *)
(* opened one                                                             *)
C6_Witness ==
  /\ \E i \in DOMAIN assign_log :
       assign_log[i].rep # None /\ assign_log[i].at < n_constraints
  /\ \E i \in DOMAIN assign_log : i > 1 /\ assign_log[i].rep = None

(* C7: the neighborhood-label vector never holds more than                *)
(* n_constraints + 1 distinct nonzero values.                             *)
C7_NeighborhoodsWithinBudget ==
  Cardinality(UniqueNbr(nbr_label)) <= n_constraints + 1

(* every query of a budget of two or more has opened a neighborhood *)
C7_Witness ==
  /\ n_constraints >= 2
  /\ Cardinality(UniqueNbr(nbr_label)) = n_constraints + 1

ACD_Filled == method = "acd" /\ pc = "assemble"
Eligible == {i \in DOMAIN merge_size : min_samples = None \/ merge_size[i] >= min_samples}
Used == {select_idx[i] : i \in DOMAIN select_idx}

(* C8: the merges behind the query rows are taken from the ranking in     *)
(* non-increasing order of smaller-side size (largest first: no eligible  *)
(* merge left out is larger than one used), none is smaller than          *)
(* min_samples when that is given, and each such row pairs a point of one *)
(* merged set with a point of the other, two different points.            *)
C8_RankedMerges ==
  /\ pc \in {"acd_fill", "assemble"} =>
       /\ \A i, j \in DOMAIN select_idx :
            i < j => merge_size[select_idx[i]] >= merge_size[select_idx[j]]
       /\ \A u \in Used : \A m \in Eligible \ Used : merge_size[m] <= merge_size[u]
       /\ min_samples # None =>
            \A i \in DOMAIN select_idx : merge_size[select_idx[i]] >= min_samples
  /\ ACD_Filled =>
       \A i \in DOMAIN select_idx :
         /\ query_mat[i][1] \in merge_history[select_idx[i]][1]
         /\ query_mat[i][2] \in merge_history[select_idx[i]][2]
         /\ merge_history[select_idx[i]][1] \cap merge_history[select_idx[i]][2] = {}
         /\ query_mat[i][1] # query_mat[i][2]

(* two rows from merges of different sizes, with min_samples given *)
C8_Witness ==
  /\ ACD_Filled
  /\ min_samples # None
  /\ Len(select_idx) >= 2
  /\ merge_size[select_idx[1]] > merge_size[select_idx[2]]

(* C9: the query array ACD returns has n_constraints rows of two point    *)
(* indices in 0..N-1; the rows from merges are as many as the eligible    *)
(* merges allow, the rest are pairs over the whole dataset, and no row    *)
(* comes from a merge when min_samples filters them all out.              *)
C9_ShapeAndPadding ==
  ACD_Filled =>
    /\ Len(query_mat) = n_constraints
    /\ \A r \in DOMAIN query_mat :
         /\ Len(query_mat[r]) = 2
         /\ query_mat[r][1] \in Ind(N)
         /\ query_mat[r][2] \in Ind(N)
    /\ Len(merge_size) = N - 1
    /\ Len(select_idx) =
         (IF Cardinality(Eligible) < n_constraints
            THEN Cardinality(Eligible) ELSE n_constraints)
    /\ Eligible = {} => select_idx = <<>>

(* some rows from merges, the others padded *)
C9_Witness ==
  /\ ACD_Filled
  /\ min_samples # None
  /\ 0 < Len(select_idx)
  /\ Len(select_idx) < n_constraints

(* C10: an unknown method name fails before anything is computed: no      *)
(* distances, no random draws, no query array and no result.              *)
C10_FailsBeforeComputing ==
  (pc = "raised" /\ method \notin Methods) =>
    /\ pdist_vec = NoArr
    /\ ~rng_used
    /\ query_mat = NoArr
    /\ gc_constraint_mat = NoArr
    /\ big_constraint_mat = NoArr

(* C11: a dataset of fewer than 2 points or a label vector of a single    *)
(* class is rejected: the call never gets as far as a query array or a    *)
(* returned constraint matrix.                                            *)
Degenerate == N < 2 \/ NumClass(labels) = 1
C11_RejectsDegenerate ==
  Degenerate =>
    /\ pc \notin {"assemble", "returned"}
    /\ gc_constraint_mat = NoArr

(* C12: a candidate of the minimax phase that has been answered           *)
(* "different" against every discovered neighborhood, every answer within *)
(* the budget, is given a new neighborhood index larger than every        *)
(* existing one; it is not left with label 0.                             *)
ScanExhausted ==
  \/ pc = "mm_scan" /\ k >= Len(ind_vec)
  \/ /\ pc = "mm_append"
     /\ k = Len(ind_vec) - 1
     /\ constraint_mat[query_cnt][3] = 0
Answer(a, b) == IF labels[a] = labels[b] THEN 1 ELSE 0
ScanBase == quer_cnt - (nbr_cnt - 1)
HoodsBefore(i) == {assign_log[j].hood : j \in 1 .. i - 1}
MatchingBefore(i) ==
  {assign_log[j].hood : j \in {jj \in 1 .. i - 1 :
                                 labels[assign_log[jj].pt] = labels[assign_log[i].pt]}}
C13_ScanOrder ==
  /\ pc = "ffqs_scan" =>
       /\ nbr_cnt - 1 <= MaxLabel(nbr_label)
       /\ \A h \in 1 .. nbr_cnt - 1 :
            /\ ScanBase + h <= n_constraints =>
                 LET row == constraint_mat[ScanBase + h]
                 IN /\ row[1] = new_pt
                    /\ nbr_label[row[2]] = h
                    /\ row[3] = Answer(new_pt, row[2])
            /\ h < nbr_cnt - 1 => Answer(new_pt, HoodRep(nbr_label, h)) = 0
       /\ constraint <=> (nbr_cnt > 1 /\ Answer(new_pt, HoodRep(nbr_label, nbr_cnt - 1)) = 1)
  /\ pc \in {"ffqs_loop", "ffqs_scan", "ffqs_done"} =>
       /\ \A p \in Ind(N) :
            Cardinality({r \in DOMAIN constraint_mat :
                           constraint_mat[r][1] = p /\ constraint_mat[r][3] = 1}) <= 1
       /\ \A i \in 2 .. Len(assign_log) :
            assign_log[i].hood =
              IF MatchingBefore(i) # {} THEN Min(MatchingBefore(i))
              ELSE Max(HoodsBefore(i)) + 1
C13_Witness ==
  /\ pc = "ffqs_loop"
  /\ \E i \in 2 .. Len(assign_log) :
       LET e == assign_log[i]
       IN /\ e.hood = 2
          /\ e.rep # None
          /\ e.at + 1 <= n_constraints
          /\ constraint_mat[e.at + 1] = <<e.pt, e.rep, 1>>
          /\ constraint_mat[e.at][1] = e.pt
          /\ constraint_mat[e.at][3] = 0

(* C14: in every outer iteration of FFQS the new point is an unassigned   *)
(* point whose smallest distance to the assigned points is the largest    *)
(* among the unassigned points.                                           *)
DistToAssigned(c) == Min({Abs(data[a] - data[c]) : a \in Assigned(nbr_label)})
C14_FarthestFirst ==
  pc = "ffqs_scan" =>
    /\ new_pt \in Unassigned(nbr_label)
    /\ \A c \in Unassigned(nbr_label) : DistToAssigned(c) <= DistToAssigned(new_pt)
C14_Witness ==
  /\ pc = "ffqs_scan"
  /\ \E c \in Unassigned(nbr_label) : DistToAssigned(c) < DistToAssigned(new_pt)

(* C15: whenever some point is outside the skeleton set, the point the    *)
(* minimax phase queries next is outside the skeleton, carries label 0    *)
(* when it is selected, and attains the smallest value, over the points   *)
(* outside the skeleton, of the largest affinity to a skeleton point.     *)
Aff(a, b) == MaxCoord - Abs(data[a] - data[b])
BestAff(c) == Max({Aff(a, c) : a \in skeleton_ind})
Candidates == Ind(N) \ skeleton_ind
C15_UnassignedMinimax ==
  (pc = "mm_scan" /\ Candidates # {}) =>
    /\ q \in Candidates
    /\ clus_label[q] = 0
    /\ \A c \in Candidates : BestAff(q) <= BestAff(c)

(* C16: the minimax phase compares the candidate with exactly one point   *)
(* of each discovered neighborhood, a member of largest affinity to the   *)
(* candidate, in descending order of that affinity; the scan stops at the *)
(* first "same" answer and the candidate takes the label of the           *)
(* neighborhood that matched.                                             *)
ScanRow(i, asked) == constraint_mat[query_cnt - asked + i]
C16_RankedScan ==
  /\ pc = "mm_scan" =>
       /\ Len(ind_vec) = Cardinality(UniqueNbr(clus_label))
       /\ {clus_label[ind_vec[i]] : i \in DOMAIN ind_vec} = UniqueNbr(clus_label)
       /\ \A i \in DOMAIN ind_vec :
            \A m \in Members(clus_label, clus_label[ind_vec[i]]) :
              Aff(q, m) <= Aff(q, ind_vec[i])
       /\ \A i, j \in DOMAIN ind_vec : i < j => Aff(q, ind_vec[i]) >= Aff(q, ind_vec[j])
       /\ \A i \in 1 .. k :
            ScanRow(i, k) = <<q, ind_vec[i], 0>> /\ labels[q] # labels[ind_vec[i]]
  /\ pc = "mm_append" =>
       /\ \A i \in 1 .. k + 1 :
            ScanRow(i, k + 1) = <<q, ind_vec[i], Answer(q, ind_vec[i])>>
       /\ \A i \in 1 .. k : Answer(q, ind_vec[i]) = 0
       /\ Answer(q, ind_vec[k + 1]) = 1 => clus_label[q] = clus_label[ind_vec[k + 1]]
C16_Witness ==
  /\ pc = "mm_append"
  /\ k = 1
  /\ Aff(q, ind_vec[1]) > Aff(q, ind_vec[2])
  /\ ScanRow(1, 2) = <<q, ind_vec[1], 0>>
  /\ ScanRow(2, 2) = <<q, ind_vec[2], 1>>
  /\ clus_label[q] = clus_label[ind_vec[2]]

(* C17: in every state of FFQS and of the minimax phase two points with   *)
(* the same nonzero neighborhood label have the same true class; in FFQS  *)
(* two points with different nonzero labels have different true classes;  *)
(* so the nonzero labels in use are never more than the true classes.     *)
Pure(lab) ==
  \A a, b \in DOMAIN lab : (lab[a] # 0 /\ lab[a] = lab[b]) => labels[a] = labels[b]
Separated(lab) ==
  \A a, b \in DOMAIN lab :
    (lab[a] # 0 /\ lab[b] # 0 /\ lab[a] # lab[b]) => labels[a] # labels[b]
C17_Purity ==
  /\ Pure(nbr_label) /\ Separated(nbr_label)
  /\ Cardinality(UniqueNbr(nbr_label)) <= NumClass(labels)
  /\ Pure(clus_label)
  /\ Cardinality(UniqueNbr(clus_label)) <= NumClass(labels)
C17_Witness ==
  /\ pc = "mm_append"
  /\ nbr_label[q] = 0
  /\ clus_label[q] # 0
  /\ Cardinality(UniqueNbr(clus_label)) >= 2
  /\ \E a \in Ind(N) \ {q} : nbr_label[a] = clus_label[q] /\ Cardinality(Members(nbr_label, nbr_label[a])) >= 2

(* C18: the minimax phase starts with its query counter equal to the      *)
(* number of rows FFQS recorded and writes only rows FFQS left unused, so *)
(* the last row FFQS recorded for each of its new points, point 0         *)
(* included, is still in the array.                                       *)
InMinimax == pc \in {"mm_loop", "mm_scan", "mm_append"}
C18_FFQSRowsKept ==
  InMinimax =>
    /\ query_cnt = FFQSRecorded + mm_writes
    /\ \A i \in 2 .. Len(assign_log) :
         LET e == assign_log[i]
         IN e.at + 1 <= n_constraints =>
              /\ constraint_mat[e.at + 1][1] = e.pt
              /\ constraint_mat[e.at + 1][3] = (IF e.rep = None THEN 0 ELSE 1)

(* C19: whenever the outer loop of FFQS starts an iteration at least one  *)
(* point is still unassigned, so the farthest-point selection never runs  *)
(* over an empty candidate set and never raises.                          *)
C19_CandidatesLeft ==
  /\ (pc = "ffqs_loop" /\ FFQS_Continue) => Unassigned(nbr_label) # {}
  /\ pc = "ffqs_scan" => new_pt \in Ind(N)
  /\ pc # "raised"
C19_Witness ==
  /\ pc = "ffqs_loop"
  /\ FFQS_Continue
  /\ Cardinality(Unassigned(nbr_label)) = 1
  /\ N >= 3

(* C20: FFQS and MMFFQS terminate, returning or raising; every finished   *)
(* outer iteration of either loop has consumed at least one query, and    *)
(* neither loop starts more than n_constraints iterations.                *)
FFQSIters ==
  (IF assign_log = <<>> THEN 0 ELSE Len(assign_log) - 1)
    + (IF pc = "ffqs_scan" THEN 1 ELSE 0)
IterBound ==
  /\ FFQSIters <= n_constraints
  /\ mm_iters <= n_constraints
  /\ pc = "ffqs_loop" => FFQSIters <= quer_cnt
  /\ pc = "mm_loop" => mm_iters <= mm_writes
FFQSStopped == pc \in {"ffqs_done", "raised"}
MMFFQSStopped == pc \in {"assemble", "raised"}
C20_Terminates ==
  /\ <>FFQSStopped
  /\ <>MMFFQSStopped
  /\ []IterBound
C20_Witness ==
  /\ pc = "assemble"
  /\ FFQSIters >= 2
  /\ mm_iters >= 1
  /\ FFQSIters + mm_iters >= n_constraints

====
